---- MODULE Spec2Model ----
(***************************************************************************)
(* Model of the command-line task manager: task_manager.py (Task,          *)
(* TaskManager, create_task, save_tasks, import_tasks), main.py (the menu  *)
(* handlers) and utils.py (timer_logic).                                   *)
(*                                                                         *)
(* A Task object is a record; its "id" field is the object's identity      *)
(* (Task defines no __eq__, so "in" and list.remove compare by identity).  *)
(* Minutes are modelled by integers.                                       *)
(***************************************************************************)
EXTENDS Integers, Sequences, FiniteSets, TLC

VARIABLES
    task_low,    \* lm.task_low : sequence of Task objects
    task_mid,    \* lm.task_mid
    task_high,   \* lm.task_high
    file,        \* the contents of Task_lists.json on disk
    out,         \* what the last operation printed
    last,        \* the last operation: its name, its argument, what it raised
    pc,          \* position of the control thread: "menu" or inside Task.start_pomodoro
    session      \* the local variables of the running Task.start_pomodoro call

vars == <<task_low, task_mid, task_high, file, out, last, pc, session>>

storeVars == <<task_low, task_mid, task_high>>

-----------------------------------------------------------------------------
(* Bounds *)

MaxTasks == 2       \* most Task objects held by the store at once
MaxDocRecs == 2     \* most records in a hand-edited Task_lists.json
MaxSaved == 2       \* most tasks in a store that is saved
MaxExisting == 1    \* most tasks in the store when a hand-edited file is imported
MaxCycles == 3      \* largest number of Pomodoro cycles typed in
MaxBreak == 1       \* largest break length typed in
MaxPrompts == 2     \* most invalid answers given to the completion prompt

-----------------------------------------------------------------------------
(* Priority and Operation enumerations *)

\* The members of the Priority enum, by name
Priority == {"LOW", "MID", "HIGH"}

\* The members of the Operation enum, by name
Operation == {"DELETE", "ADD"}

\* str.upper() on the priority strings a document may hold
Upper(s) ==
    CASE s = "low" -> "LOW"
      [] s = "mid" -> "MID"
      [] s = "High" -> "HIGH"
      [] OTHER -> s

\* str.lower() on the names of the Priority members
Lower(s) ==
    CASE s = "LOW" -> "low"
      [] s = "MID" -> "mid"
      [] s = "HIGH" -> "high"
      [] OTHER -> s

\* str.strip() on the names typed in
Strip(s) ==
    CASE s = " " -> ""
      [] s = " a" -> "a"
      [] s = " 1" -> "1"
      [] OTHER -> s

-----------------------------------------------------------------------------
(* Task *)

NoTask == [id |-> 0]

\* Task.__init__ with the name tested without strip(): a name of only
\* whitespace passes
TaskInitNoStrip(id, task_name, description, priority, conclude_time) ==
    IF task_name = "" \/ priority \notin Priority \/ conclude_time <= 0
    THEN [exc |-> "ValueError", msg |-> "", task |-> [id |-> 0]]
    ELSE [exc |-> "none", msg |-> "",
          task |-> [id |-> id,
                    task_name |-> task_name,
                    description |-> description,
                    priority |-> priority,
                    conclude_time |-> conclude_time,
                    is_completed |-> FALSE]]

\* Task.__init__: validates, then builds a task that is not completed
TaskInit(id, task_name, description, priority, conclude_time) ==
    IF Strip(task_name) = ""
    THEN [exc |-> "ValueError", msg |-> "Task name cannot be empty.", task |-> NoTask]
    ELSE IF priority \notin Priority
    THEN [exc |-> "ValueError", msg |-> "Priority must be a valid Priority Enum member.", task |-> NoTask]
    ELSE IF conclude_time <= 0
    THEN [exc |-> "ValueError", msg |-> "Duration must be a positive number.", task |-> NoTask]
    ELSE [exc |-> "none", msg |-> "",
          task |-> [id |-> id,
                    task_name |-> task_name,
                    description |-> description,
                    priority |-> priority,
                    conclude_time |-> conclude_time,
                    is_completed |-> FALSE]]

\* Task.conclude_task that flips the flag instead of setting it
ConcludeToggle(task) ==
    [task |-> [task EXCEPT !.is_completed = ~task.is_completed],
     msg |-> IF task.is_completed THEN "is already completed."
             ELSE "was completed successfully."]

\* Task.conclude_task: the task afterwards, and the message printed
conclude_task(task) ==
    IF ~task.is_completed
    THEN [task |-> [task EXCEPT !.is_completed = TRUE],
          msg |-> "was completed successfully."]
    ELSE [task |-> task, msg |-> "is already completed."]

\* Task._to_dict
ToDict(task) ==
    ("task_name" :> task.task_name) @@
    ("description" :> task.description) @@
    ("priority" :> task.priority) @@
    ("conclude_time" :> task.conclude_time) @@
    ("_is_completed" :> task.is_completed)

\* Task._from_dict that forgets to restore the completion flag
FromDictNoRestore(id, data) ==
    IF {"task_name", "description", "priority", "conclude_time", "_is_completed"}
           \subseteq DOMAIN data
       /\ Upper(data["priority"]) \in Priority
    THEN LET r == TaskInit(id, data["task_name"], data["description"],
                           Upper(data["priority"]), data["conclude_time"])
         IN [exc |-> r.exc, task |-> r.task]
    ELSE [exc |-> "KeyError", task |-> NoTask]

\* Task._from_dict: the keys are read in the order of the call's arguments,
\* the constructor validates, and the completion flag is restored last
FromDict(id, data) ==
    IF "task_name" \notin DOMAIN data THEN [exc |-> "KeyError", task |-> NoTask]
    ELSE IF "description" \notin DOMAIN data THEN [exc |-> "KeyError", task |-> NoTask]
    ELSE IF "priority" \notin DOMAIN data THEN [exc |-> "KeyError", task |-> NoTask]
    ELSE IF Upper(data["priority"]) \notin Priority THEN [exc |-> "KeyError", task |-> NoTask]
    ELSE IF "conclude_time" \notin DOMAIN data THEN [exc |-> "KeyError", task |-> NoTask]
    ELSE LET r == TaskInit(id, data["task_name"], data["description"],
                           Upper(data["priority"]), data["conclude_time"])
         IN IF r.exc # "none" THEN [exc |-> r.exc, task |-> NoTask]
            ELSE IF "_is_completed" \notin DOMAIN data THEN [exc |-> "KeyError", task |-> NoTask]
            ELSE [exc |-> "none",
                  task |-> [r.task EXCEPT !.is_completed = data["_is_completed"]]]

-----------------------------------------------------------------------------
(* TaskManager *)

\* The three lists of a TaskManager, by the key list_manager uses
Lists == [low |-> task_low, mid |-> task_mid, high |-> task_high]

\* TaskManager.__init__
EmptyLists == [low |-> <<>>, mid |-> <<>>, high |-> <<>>]

Range(s) == {s[i] : i \in 1..Len(s)}

AllTasks(lists) == Range(lists.low) \cup Range(lists.mid) \cup Range(lists.high)

Size(lists) == Len(lists.low) + Len(lists.mid) + Len(lists.high)

\* A fresh object identity: one no live task of the store has
FreshId(lists) ==
    CHOOSE i \in 1..(Size(lists) + 1) : \A t \in AllTasks(lists) : t.id # i

\* Task equality by value, as an __eq__ comparing the fields would give
TaskEqByValue(t, u) ==
    /\ t.task_name = u.task_name
    /\ t.description = u.description
    /\ t.priority = u.priority
    /\ t.conclude_time = u.conclude_time
    /\ t.is_completed = u.is_completed

\* Task equality: Task defines no __eq__, so two tasks are equal when they
\* are the same object
TaskEq(t, u) == t.id = u.id

\* "task in target_list"
Contains(seq, task) == \E i \in 1..Len(seq) : TaskEq(seq[i], task)

\* list.remove: drops the first element equal to task
Remove(seq, task) ==
    LET k == CHOOSE i \in 1..Len(seq) :
                 /\ TaskEq(seq[i], task)
                 /\ \A j \in 1..(i - 1) : ~TaskEq(seq[j], task)
    IN SubSeq(seq, 1, k - 1) \o SubSeq(seq, k + 1, Len(seq))

\* A list selection whose "mid" entry is bound to the high list
TargetKeyMidAsHigh(task) ==
    IF task.priority = "MID" THEN "high" ELSE Lower(task.priority)

\* The list list_manager selects: keyed by the lower-cased priority name
TargetKey(task) == Lower(task.priority)

\* TaskManager.list_manager whose ADD puts the task at the front of the list
list_managerPrepend(lists, task, operation) ==
    LET key == Lower(task.priority)
    IN IF operation = "DELETE"
       THEN IF \E i \in 1..Len(lists[key]) : lists[key][i].id = task.id
            THEN [lists |-> [lists EXCEPT ![key] =
                                SelectSeq(lists[key], LAMBDA t : t.id # task.id)],
                  out |-> <<"removed from priority list.">>]
            ELSE [lists |-> lists, out |-> <<"not found in priority list.">>]
       ELSE [lists |-> [lists EXCEPT ![key] = <<task>> \o lists[key]],
             out |-> <<>>]

\* TaskManager.list_manager: the lists afterwards and the messages printed
list_manager(lists, task, operation) ==
    LET key == TargetKey(task)
    IN IF operation = "DELETE"
       THEN IF Contains(lists[key], task)
            THEN [lists |-> [lists EXCEPT ![key] = Remove(lists[key], task)],
                  out |-> <<"removed from priority list.">>]
            ELSE [lists |-> lists, out |-> <<"not found in priority list.">>]
       ELSE [lists |-> [lists EXCEPT ![key] = Append(lists[key], task)],
             out |-> <<>>]

\* create_task: Task(...) then lm.list_manager(task, Operation.ADD)
create_task(lists, name, description, priority, conclude_time) ==
    LET r == TaskInit(FreshId(lists), name, description, priority, conclude_time)
    IN IF r.exc # "none"
       THEN [exc |-> r.exc, lists |-> lists, task |-> NoTask]
       ELSE [exc |-> "none",
             lists |-> list_manager(lists, r.task, "ADD").lists,
             task |-> r.task]

-----------------------------------------------------------------------------
(* Persistence: Task_lists.json *)

\* The file on disk: missing, not valid JSON, a JSON array, or a JSON object
NoFile == [kind |-> "absent", data |-> <<>>]
CorruptFile == [kind |-> "corrupt", data |-> <<>>]
ArrayFile == [kind |-> "array", data |-> <<>>]
ObjectFile(doc) == [kind |-> "object", data |-> doc]

RECURSIVE MapToDict(_)
\* [t._to_dict() for t in seq]
MapToDict(seq) ==
    IF seq = <<>> THEN <<>>
    ELSE <<ToDict(Head(seq))>> \o MapToDict(Tail(seq))

\* The dictionary save_tasks dumps
SaveData(lists) ==
    [high |-> MapToDict(lists.high),
     mid |-> MapToDict(lists.mid),
     low |-> MapToDict(lists.low)]

\* What the environment does to the write: it succeeds, open() fails and the
\* file stays as it was, or the write breaks off and leaves a partial file
IoOutcomes == {"ok", "open_fails", "write_fails"}

\* save_tasks
save_tasks(lists, f, io) ==
    CASE io = "ok" ->
            [file |-> ObjectFile(SaveData(lists)),
             exc |-> "none",
             out |-> <<"Tasks successfully exported to 'Task_lists.json'.">>]
      [] io = "open_fails" ->
            [file |-> f,
             exc |-> "IOError",
             out |-> <<"Error saving tasks to file">>]
      [] OTHER ->
            [file |-> CorruptFile,
             exc |-> "IOError",
             out |-> <<"Error saving tasks to file">>]

\* data.get(key, [])
Get(data, key) == IF key \in DOMAIN data THEN data[key] ELSE <<>>

RECURSIVE ImportRecords(_, _)
\* One "for task_data in data.get(...)" loop of import_tasks: every record
\* is decoded and added at once; the first exception ends the loop
ImportRecords(lists, recs) ==
    IF recs = <<>> THEN [lists |-> lists, exc |-> "none"]
    ELSE LET r == FromDict(FreshId(lists), Head(recs))
         IN IF r.exc # "none" THEN [lists |-> lists, exc |-> r.exc]
            ELSE ImportRecords(list_manager(lists, r.task, "ADD").lists, Tail(recs))

\* The three loops of import_tasks, in the order high, mid, low
ImportData(lists, data) ==
    LET h == ImportRecords(lists, Get(data, "high"))
    IN IF h.exc # "none" THEN h
       ELSE LET m == ImportRecords(h.lists, Get(data, "mid"))
            IN IF m.exc # "none" THEN m
               ELSE ImportRecords(m.lists, Get(data, "low"))

\* import_tasks
import_tasks(lists, f) ==
    CASE f.kind = "absent" ->
            [lists |-> lists, exc |-> "FileNotFoundError",
             out |-> <<"Task_lists.json not found. No tasks to import.">>]
      [] f.kind = "corrupt" ->
            [lists |-> lists, exc |-> "JSONDecodeError",
             out |-> <<"Error decoding Task_lists.json. File might be corrupted.">>]
      [] f.kind = "array" ->
            [lists |-> lists, exc |-> "AttributeError",
             out |-> <<"An unexpected error occurred during task import">>]
      [] OTHER ->
            LET r == ImportData(lists, f.data)
            IN IF r.exc = "none"
               THEN [lists |-> r.lists, exc |-> "none",
                     out |-> <<"Tasks successfully imported from 'Task_lists.json'.">>]
               ELSE [lists |-> r.lists, exc |-> r.exc,
                     out |-> <<"An unexpected error occurred during task import">>]

-----------------------------------------------------------------------------
(* Inputs *)

\* Arguments of create_task that pass the validation of Task.__init__
ValidInputs ==
    { <<"a", "d", "HIGH", 1>>,
      <<"a", "", "LOW", 2>>,
      <<"b", "d", "MID", 1>>,
      <<"b", "d", "HIGH", 2>> }

\* Arguments of create_task that Task.__init__ rejects
InvalidInputs ==
    { <<"", "d", "HIGH", 1>>,
      <<" ", "d", "LOW", 1>>,
      <<"a", "d", "low", 1>>,
      <<"a", "d", "4", 1>>,
      <<"b", "d", "MID", 0>>,
      <<"b", "d", "MID", -1>> }

CreateInputs == ValidInputs \cup InvalidInputs

\* The records a hand-edited Task_lists.json may hold
RawRecords ==
    { ("task_name" :> "a") @@ ("description" :> "d") @@ ("priority" :> "HIGH") @@
          ("conclude_time" :> 1) @@ ("_is_completed" :> TRUE),
      ("task_name" :> "b") @@ ("description" :> "") @@ ("priority" :> "low") @@
          ("conclude_time" :> 2) @@ ("_is_completed" :> FALSE),
      ("task_name" :> "a") @@ ("description" :> "d") @@ ("priority" :> "URGENT") @@
          ("conclude_time" :> 1) @@ ("_is_completed" :> FALSE),
      ("task_name" :> "b") @@ ("description" :> "d") @@ ("priority" :> "MID") @@
          ("conclude_time" :> 1) }

Keys == {"high", "mid", "low"}

RecordSeqs == UNION {[1..k -> RawRecords] : k \in 0..MaxDocRecs}

DocSize(doc) == Len(Get(doc, "high")) + Len(Get(doc, "mid")) + Len(Get(doc, "low"))

\* The JSON objects a hand-edited file may hold: any of the three keys may
\* be missing
Documents ==
    UNION { {doc \in [K -> RecordSeqs] : DocSize(doc) <= MaxDocRecs} : K \in SUBSET Keys }

-----------------------------------------------------------------------------
(* State *)

\* No Pomodoro run is in progress
Idle == [id |-> 0, break_time_minutes |-> 0, repeat_times |-> 0, i |-> 0,
         intervals |-> <<>>, prompts |-> 0, answer |-> ""]

SetLists(lists) ==
    /\ task_low' = lists.low
    /\ task_mid' = lists.mid
    /\ task_high' = lists.high

\* The Task_lists.json a new process may find in its directory
StartFiles ==
    { NoFile,
      ObjectFile([high |-> <<ToDict(TaskInit(1, "a", "d", "LOW", 1).task)>>,
                  mid |-> <<>>,
                  low |-> <<ToDict(TaskInit(1, "b", "", "HIGH", 2).task)>>]) }

\* A new process: an empty TaskManager
Init ==
    /\ task_low = <<>>
    /\ task_mid = <<>>
    /\ task_high = <<>>
    /\ file \in StartFiles
    /\ out = <<>>
    /\ last = [op |-> "start", arg |-> <<>>, exc |-> "none"]
    /\ pc = "menu"
    /\ session = Idle

-----------------------------------------------------------------------------
(* Operations of task_manager.py called directly *)

\* create_task(name, description, priority, conclude_time)
CreateTask ==
    \E a \in CreateInputs :
        /\ pc = "menu"
        /\ Size(Lists) < MaxTasks
        /\ LET r == create_task(Lists, a[1], a[2], a[3], a[4])
           IN /\ SetLists(r.lists)
              /\ last' = [op |-> "create_task", arg |-> a, exc |-> r.exc]
        /\ out' = <<>>
        /\ UNCHANGED <<file, pc, session>>

\* Task objects the caller holds that are not in the store
ForeignTasks(lists) ==
    {TaskInit(FreshId(lists), a[1], a[2], a[3], a[4]).task : a \in ValidInputs}

\* lm.list_manager(task, Operation.DELETE), for a task of the store or not
ListManagerDelete ==
    \E task \in AllTasks(Lists) \cup ForeignTasks(Lists) :
        /\ pc = "menu"
        /\ LET r == list_manager(Lists, task, "DELETE")
           IN /\ SetLists(r.lists)
              /\ out' = r.out
        /\ last' = [op |-> "list_manager", arg |-> task, exc |-> "none"]
        /\ UNCHANGED <<file, pc, session>>

\* The lists after the task object with this identity became new
Mutate(lists, new) ==
    [key \in DOMAIN lists |->
        [k \in 1..Len(lists[key]) |->
            IF lists[key][k].id = new.id THEN new ELSE lists[key][k]]]

\* task.conclude_task() on a task of the store
ConcludeTask ==
    \E task \in AllTasks(Lists) :
        /\ pc = "menu"
        /\ LET r == conclude_task(task)
           IN /\ SetLists(Mutate(Lists, r.task))
              /\ out' = <<r.msg>>
        /\ last' = [op |-> "conclude_task", arg |-> task, exc |-> "none"]
        /\ UNCHANGED <<file, pc, session>>

-----------------------------------------------------------------------------
(* The menu handlers of main.py *)

\* The numbers whose decimal form the user may type
Numbers == -1 .. (MaxCycles + MaxBreak + 2)

\* float(text) and int(text) for the texts typed in: the decimal forms of
\* the numbers parse, anything else raises ValueError
ParseNumber(text) ==
    IF \E n \in Numbers : ToString(n) = text
    THEN [exc |-> "none", value |-> CHOOSE n \in Numbers : ToString(n) = text]
    ELSE [exc |-> "ValueError", value |-> 0]

\* What the user may type into create_new_task:
\* name, description, priority choice, estimated time
MenuInputs ==
    { <<"a", "d", "3", "1">>,
      <<"b", "d", "1", "2">>,
      <<"a", "d", "2", "2">>,
      <<" ", "d", "1", "1">>,
      <<"a", "", "1", "1">>,
      <<"a", "d", "9", "1">>,
      <<"a", "d", "2", "abc">>,
      <<"b", "d", "2", "0">> }

\* create_new_task: the lists afterwards, what is printed, how it ended
create_new_task(lists, name, description, priority_choice, time_text) ==
    IF Strip(name) = ""
    THEN [lists |-> lists, exc |-> "invalid",
          out |-> <<"Invalid name. Please provide a valid name.">>]
    ELSE IF Strip(description) = ""
    THEN [lists |-> lists, exc |-> "invalid",
          out |-> <<"Invalid description. Please provide a valid description.">>]
    ELSE IF priority_choice \notin {"1", "2", "3"}
    THEN [lists |-> lists, exc |-> "invalid",
          out |-> <<"Invalid priority. Task not created.">>]
    ELSE LET priority == CASE priority_choice = "1" -> "LOW"
                           [] priority_choice = "2" -> "MID"
                           [] OTHER -> "HIGH"
             t == ParseNumber(time_text)
         IN IF t.exc # "none"
            THEN [lists |-> lists, exc |-> "ValueError",
                  out |-> <<"Invalid time. Task not created.">>]
            ELSE LET r == create_task(lists, name, description, priority, t.value)
                 IN IF r.exc # "none"
                    THEN [lists |-> lists, exc |-> "ValueError",
                          out |-> <<"Invalid time. Task not created.">>]
                    ELSE [lists |-> r.lists, exc |-> "none",
                          out |-> <<"Task created successfully:">>]

\* Menu choice 1
CreateNewTask ==
    \E a \in MenuInputs :
        /\ pc = "menu"
        /\ Size(Lists) < MaxTasks
        /\ LET r == create_new_task(Lists, a[1], a[2], a[3], a[4])
           IN /\ SetLists(r.lists)
              /\ out' = r.out
              /\ last' = [op |-> "create_new_task", arg |-> a, exc |-> r.exc]
        /\ UNCHANGED <<file, pc, session>>

\* Menu choice 3: save_tasks(), then the menu's own message
SaveTasks ==
    \E io \in IoOutcomes :
        /\ pc = "menu"
        /\ LET r == save_tasks(Lists, file, io)
           IN /\ file' = r.file
              /\ out' = r.out \o <<"Tasks saved successfully!">>
              /\ last' = [op |-> "save_tasks", arg |-> io, exc |-> r.exc]
        /\ UNCHANGED <<task_low, task_mid, task_high, pc, session>>

\* Menu choice 4: import_tasks(), then the menu's own message
ImportTasks ==
    /\ pc = "menu"
    /\ LET r == import_tasks(Lists, file)
       IN /\ Size(r.lists) <= MaxTasks
          /\ SetLists(r.lists)
          /\ out' = r.out \o <<"Tasks imported successfully!">>
          /\ last' = [op |-> "import_tasks", arg |-> <<>>, exc |-> r.exc]
    /\ UNCHANGED <<file, pc, session>>

\* The first task of a scan that has this name, or NoTask
FirstNamed(scan, task_name) ==
    IF \E k \in 1..Len(scan) : scan[k].task_name = task_name
    THEN scan[CHOOSE k \in 1..Len(scan) :
                 /\ scan[k].task_name = task_name
                 /\ \A j \in 1..(k - 1) : scan[j].task_name # task_name]
    ELSE NoTask

\* A scan of delete_task that starts with the high list
DeleteScanHighFirst(lists) == lists.high \o lists.mid \o lists.low

\* The lists in the order delete_task scans them
DeleteScan(lists) == lists.low \o lists.mid \o lists.high

\* delete_task
delete_task(lists, task_name) ==
    LET task == FirstNamed(DeleteScan(lists), task_name)
    IN IF task # NoTask
       THEN LET r == list_manager(lists, task, "DELETE")
            IN [lists |-> r.lists, exc |-> "none",
                out |-> r.out \o <<"Task deleted successfully.">>]
       ELSE [lists |-> lists, exc |-> "not found", out |-> <<"Task not found.">>]

\* The task names typed into delete_task and start_pomodoro
TypedNames == {"a", "b", "c"}

\* Menu choice 6
DeleteTask ==
    \E task_name \in TypedNames :
        /\ pc = "menu"
        /\ LET r == delete_task(Lists, task_name)
           IN /\ SetLists(r.lists)
              /\ out' = r.out
              /\ last' = [op |-> "delete_task", arg |-> task_name, exc |-> r.exc]
        /\ UNCHANGED <<file, pc, session>>

\* The Task_lists.json that an editor, or an earlier run, may have left
ExternalFiles ==
    {NoFile, CorruptFile, ArrayFile} \cup {ObjectFile(doc) : doc \in Documents}

\* Menu choice 7, and the program is started again: a new, empty TaskManager
Restart ==
    /\ pc = "menu"
    /\ SetLists(EmptyLists)
    /\ out' = <<"Exiting...">>
    /\ last' = [op |-> "restart", arg |-> <<>>, exc |-> "none"]
    /\ UNCHANGED <<file, pc, session>>

\* The operations on the lists in memory, and imports of the file found
Next ==
    \/ CreateTask
    \/ ListManagerDelete
    \/ ConcludeTask
    \/ CreateNewTask
    \/ DeleteTask
    \/ ImportTasks
    \/ Restart

Spec == Init /\ [][Next]_vars

-----------------------------------------------------------------------------
(* Saving and importing: the program is observed from a store it has built, *)
(* with any file on disk                                                   *)

\* The arguments of create_task used to build the stores that are saved
SavedInputs ==
    { <<"a", "d", "HIGH", 1>>,
      <<"a", "", "LOW", 2>>,
      <<"b", "d", "HIGH", 2>> }

RECURSIVE Build(_)
\* The lists after create_task on each entry of the sequence in turn,
\* followed by conclude_task where the entry says so
Build(seq) ==
    IF seq = <<>> THEN EmptyLists
    ELSE LET e == seq[Len(seq)]
             r == create_task(Build(SubSeq(seq, 1, Len(seq) - 1)),
                              e[1][1], e[1][2], e[1][3], e[1][4])
         IN IF e[2] THEN Mutate(r.lists, conclude_task(r.task).task)
            ELSE r.lists

\* The stores create_task and conclude_task build, of at most n tasks
StoresUpTo(n) ==
    {Build(seq) : seq \in UNION {[1..k -> SavedInputs \X BOOLEAN] : k \in 0..n}}

\* The program has built a store; either no Task_lists.json exists yet, or
\* the store is small and the file is one an editor or an earlier run left
InitPersist ==
    /\ \E lists \in StoresUpTo(MaxSaved) :
          /\ task_low = lists.low
          /\ task_mid = lists.mid
          /\ task_high = lists.high
          /\ \/ file = NoFile
             \/ /\ Size(lists) <= MaxExisting
                /\ file \in ExternalFiles
    /\ out = <<>>
    /\ last = [op |-> "start", arg |-> <<>>, exc |-> "none"]
    /\ pc = "menu"
    /\ session = Idle

NextPersist ==
    \/ SaveTasks
    \/ ImportTasks
    \/ Restart

SpecPersist == InitPersist /\ [][NextPersist]_vars

-----------------------------------------------------------------------------
(* Pomodoro: main.start_pomodoro, Task.start_pomodoro, utils.timer_logic *)

\* timer_logic(message, time_value): the countdown runs only for a positive
\* duration; otherwise a message is printed and nothing is counted down
timer_logic(message, time_value) ==
    IF time_value * 60 <= 0
    THEN [intervals |-> <<>>, out |-> <<"Timer duration must be positive.">>]
    ELSE [intervals |-> <<[message |-> message, minutes |-> time_value]>>,
          out |-> <<"Time's up!">>]

\* The lists in the order start_pomodoro scans them
PomodoroScan(lists) == lists.low \o lists.mid \o lists.high

\* The task of the store that the running session works on
SessionTask == CHOOSE t \in AllTasks(Lists) : t.id = session.id

\* What the user may type as break time, number of cycles and answer
BreakTexts == {ToString(n) : n \in -1..MaxBreak} \cup {"abc"}
CycleTexts == {ToString(n) : n \in -1..MaxCycles} \cup {"abc"}
AnswerTexts == {"1", "0", " 1", "2", "-1", "abc", ""}

\* Menu choice 5, start_pomodoro of main.py up to the first interval: the
\* task is looked up by name, the two numbers are parsed, and
\* Task.start_pomodoro enters its loop
StartPomodoro ==
    \E task_name \in TypedNames, break_text \in BreakTexts, cycle_text \in CycleTexts :
        /\ pc = "menu"
        /\ LET task == FirstNamed(PomodoroScan(Lists), task_name)
               b == ParseNumber(break_text)
               n == ParseNumber(cycle_text)
           IN IF task = NoTask
              THEN /\ out' = <<"Task not found.">>
                   /\ last' = [op |-> "start_pomodoro", arg |-> task_name, exc |-> "not found"]
                   /\ UNCHANGED <<pc, session>>
              ELSE IF b.exc # "none" \/ n.exc # "none"
              THEN /\ out' = <<"Invalid input. Operation canceled.">>
                   /\ last' = [op |-> "start_pomodoro", arg |-> task_name, exc |-> "ValueError"]
                   /\ UNCHANGED <<pc, session>>
              ELSE /\ out' = <<>>
                   /\ last' = [op |-> "start_pomodoro", arg |-> task_name, exc |-> "none"]
                   /\ session' = [id |-> task.id,
                                  break_time_minutes |-> b.value,
                                  repeat_times |-> n.value,
                                  i |-> 0,
                                  intervals |-> <<>>,
                                  prompts |-> 0,
                                  answer |-> ""]
                   /\ pc' = IF 0 < n.value THEN "work" ELSE "prompt"
        /\ UNCHANGED <<task_low, task_mid, task_high, file>>

\* The work interval of cycle i; the loop ends after the last one
WorkInterval ==
    /\ pc = "work"
    /\ LET r == timer_logic("Work", SessionTask.conclude_time)
       IN /\ session' = [session EXCEPT
                            !.intervals = @ \o r.intervals,
                            !.i = IF session.i < session.repeat_times - 1 THEN @ ELSE @ + 1]
          /\ out' = r.out
    /\ pc' = IF session.i < session.repeat_times - 1 THEN "break" ELSE "prompt"
    /\ UNCHANGED <<task_low, task_mid, task_high, file, last>>

\* The break interval of cycle i, taken when i is not the last cycle
BreakInterval ==
    /\ pc = "break"
    /\ LET r == timer_logic("Break", session.break_time_minutes)
       IN /\ session' = [session EXCEPT !.intervals = @ \o r.intervals, !.i = @ + 1]
          /\ out' = r.out
    /\ pc' = "work"
    /\ UNCHANGED <<task_low, task_mid, task_high, file, last>>

\* One round of the "while True" prompt: the answer is stripped and parsed;
\* a text that is no integer is asked for again, any integer ends the loop
Prompt ==
    \E text \in AnswerTexts :
        /\ pc = "prompt"
        /\ LET answer == ParseNumber(Strip(text))
           IN IF answer.exc # "none"
              THEN /\ session.prompts < MaxPrompts
                   /\ session' = [session EXCEPT !.prompts = @ + 1]
                   /\ out' = <<"Invalid input. Please enter 1 or 0.">>
                   /\ UNCHANGED <<task_low, task_mid, task_high, pc>>
              ELSE /\ session' = [session EXCEPT !.answer = text]
                   /\ pc' = "done"
                   /\ IF answer.value = 1
                      THEN LET r == conclude_task(SessionTask)
                           IN /\ SetLists(Mutate(Lists, r.task))
                              /\ out' = <<r.msg>>
                      ELSE IF answer.value = 0
                      THEN /\ out' = <<"status remains unchanged.">>
                           /\ UNCHANGED <<task_low, task_mid, task_high>>
                      ELSE /\ out' = <<>>
                           /\ UNCHANGED <<task_low, task_mid, task_high>>
        /\ UNCHANGED <<file, last>>

\* Task.start_pomodoro and main.start_pomodoro return to the menu
Return ==
    /\ pc = "done"
    /\ pc' = "menu"
    /\ session' = Idle
    /\ out' = <<>>
    /\ UNCHANGED <<task_low, task_mid, task_high, file, last>>

\* The stores a Pomodoro is started on
PomodoroStores ==
    {Build(<<e>>) : e \in ValidInputs \X BOOLEAN}
    \cup {Build(<<<<<<"a", "d", "HIGH", 1>>, FALSE>>, <<<<"a", "", "LOW", 2>>, FALSE>>>>)}

InitPomodoro ==
    /\ \E lists \in PomodoroStores :
          /\ task_low = lists.low
          /\ task_mid = lists.mid
          /\ task_high = lists.high
    /\ file = NoFile
    /\ out = <<>>
    /\ last = [op |-> "start", arg |-> <<>>, exc |-> "none"]
    /\ pc = "menu"
    /\ session = Idle

NextPomodoro ==
    \/ StartPomodoro
    \/ WorkInterval
    \/ BreakInterval
    \/ Prompt
    \/ Return

SpecPomodoro == InitPomodoro /\ [][NextPomodoro]_vars

-----------------------------------------------------------------------------
(* Properties *)

\* The fields of a task, without its identity
Fields(task) ==
    <<task.task_name, task.description, task.priority, task.conclude_time,
      task.is_completed>>

\* The three buckets as sequences of task fields
Plain(lists) ==
    [key \in {"high", "mid", "low"} |->
        [k \in 1..Len(lists[key]) |-> Fields(lists[key][k])]]

\* C1: round trip. For every store the program reaches, saving it and
\* importing the saved file into an empty store succeeds and yields buckets
\* high, mid and low holding the same tasks in the same order, with the same
\* name, description, priority, minutes and completed flag.
C1_RoundTrip ==
    LET saved == save_tasks(Lists, file, "ok")
        loaded == import_tasks(EmptyLists, saved.file)
    IN /\ saved.exc = "none"
       /\ loaded.exc = "none"
       /\ Plain(loaded.lists) = Plain(Lists)

\* C1 witness: an import has rebuilt, in an empty store, a store with a
\* completed task in one bucket and a second task in another: the store
\* encodes to exactly the file it was read from
C1_Witness ==
    /\ last.op = "import_tasks"
    /\ last.exc = "none"
    /\ file = ObjectFile(SaveData(Lists))
    /\ \E t \in Range(task_high) : t.is_completed
    /\ task_low # <<>>

\* C2: bucket invariant. Every task in task_low has priority LOW, every
\* task in task_mid has priority MID, every task in task_high has priority
\* HIGH, whatever was added, removed or imported.
C2_BucketInvariant ==
    /\ \A t \in Range(task_low) : t.priority = "LOW"
    /\ \A t \in Range(task_mid) : t.priority = "MID"
    /\ \A t \in Range(task_high) : t.priority = "HIGH"

\* C2 witness: an import has put records into the buckets, among them a
\* record of priority LOW that the document listed under "high"
C2_Witness ==
    /\ last.op = "import_tasks"
    /\ last.exc = "none"
    /\ file.kind = "object"
    /\ \E k \in 1..Len(file.data["high"]) : file.data["high"][k]["priority"] = "LOW"
    /\ task_low # <<>>
    /\ task_high # <<>>

\* C3: a failed import leaves the three buckets as they were.
C3_FailedImportLeavesStore ==
    [][(last'.op = "import_tasks" /\ last'.exc # "none") => UNCHANGED storeVars]_vars

\* The task object is in the bucket of its priority
Present(task) ==
    \E t \in Range(Lists[Lower(task.priority)]) : t.id = task.id

\* C4: list_manager with DELETE on a task object that is not in the bucket
\* of its priority prints "not found", raises nothing and leaves the three
\* buckets unchanged.
C4_DeleteAbsent ==
    [][(last'.op = "list_manager" /\ ~Present(last'.arg)) =>
          /\ out' = <<"not found in priority list.">>
          /\ last'.exc = "none"
          /\ UNCHANGED storeVars]_vars

\* C4 witness: DELETE was called with a task object that is not in the
\* store, while the store holds a task with the same fields
C4_Witness ==
    /\ last.op = "list_manager"
    /\ out = <<"not found in priority list.">>
    /\ \E t \in AllTasks(Lists) : Fields(t) = Fields(last.arg)

\* The arguments are invalid: the name is empty or only whitespace, the
\* priority is no Priority member, or the minutes are not positive
InvalidInput(a) ==
    \/ a[1] \in {"", " "}
    \/ a[3] \notin {"LOW", "MID", "HIGH"}
    \/ a[4] <= 0

\* C5: create_task with invalid arguments raises the validation error,
\* produces no task and adds nothing to any bucket.
C5_InvalidCreate ==
    [][(last'.op = "create_task" /\ InvalidInput(last'.arg)) =>
          /\ last'.exc = "ValueError"
          /\ LET a == last'.arg
             IN create_task(Lists, a[1], a[2], a[3], a[4]).task = NoTask
          /\ UNCHANGED storeVars]_vars

\* C5 witness: create_task has rejected non-positive minutes on a store
\* that holds a task
C5_Witness ==
    /\ last.op = "create_task"
    /\ last.exc = "ValueError"
    /\ last.arg[4] <= 0
    /\ Size(Lists) > 0

\* C6: conclude_task leaves its task completed and changes nothing else: no
\* other field, no other task. On a task that is already completed it
\* changes nothing at all and prints "already completed".
C6_ConcludeIdempotent ==
    [][last'.op = "conclude_task" =>
          /\ \A key \in {"low", "mid", "high"} :
                /\ Len(Lists'[key]) = Len(Lists[key])
                /\ \A k \in 1..Len(Lists[key]) :
                      Lists'[key][k] =
                          IF Lists[key][k].id = last'.arg.id
                          THEN [Lists[key][k] EXCEPT !.is_completed = TRUE]
                          ELSE Lists[key][k]
          /\ last'.arg.is_completed =>
                /\ UNCHANGED storeVars
                /\ out' = <<"is already completed.">>
          /\ ~last'.arg.is_completed => out' = <<"was completed successfully.">>]_vars

\* C6 witness: conclude_task was called on a task that was already completed
C6_Witness ==
    /\ last.op = "conclude_task"
    /\ last.arg.is_completed
    /\ out = <<"is already completed.">>

\* The intervals of n cycles: work, break, work, ..., work
Alternating(n, work_minutes, break_minutes) ==
    [k \in 1..(2 * n - 1) |->
        IF k % 2 = 1
        THEN [message |-> "Work", minutes |-> work_minutes]
        ELSE [message |-> "Break", minutes |-> break_minutes]]

\* C7: when a run of n >= 1 cycles reaches the completion prompt it has
\* counted down exactly n work intervals of the task's minutes and n - 1
\* break intervals of break_minutes, alternating, first and last a work
\* interval.
C7_Intervals ==
    (pc = "prompt" /\ session.repeat_times >= 1) =>
        session.intervals =
            Alternating(session.repeat_times, SessionTask.conclude_time,
                        session.break_time_minutes)

\* C8: the run ends only on the answer 1 or 0.
C8_OnlyBinaryAnswerEnds ==
    pc = "done" => Strip(session.answer) \in {"1", "0"}

\* The messages that announce a success
SuccessMessages ==
    { "Tasks saved successfully!",
      "Tasks imported successfully!",
      "Tasks successfully exported to 'Task_lists.json'.",
      "Tasks successfully imported from 'Task_lists.json'.",
      "Task created successfully:",
      "Task deleted successfully." }

\* C9: a menu action that failed prints no success message.
C9_NoSuccessOnFailure ==
    (last.op \in {"create_new_task", "save_tasks", "import_tasks", "delete_task"}
        /\ last.exc # "none")
    => \A k \in 1..Len(out) : out[k] \notin SuccessMessages

\* C10: a run whose break time or number of cycles is not positive is
\* refused before it starts: Task.start_pomodoro is never under way, at an
\* interval, at the completion prompt or finished, with such numbers.
C10_RefusesNonPositive ==
    ~(/\ pc \in {"work", "break", "prompt", "done"}
      /\ (session.break_time_minutes <= 0 \/ session.repeat_times <= 0))

\* The records of a document in the order import_tasks reads them: the
\* sequence under "high", then "mid", then "low"; a missing key has none
ReadOrder(data) ==
    (IF "high" \in DOMAIN data THEN data["high"] ELSE <<>>)
    \o (IF "mid" \in DOMAIN data THEN data["mid"] ELSE <<>>)
    \o (IF "low" \in DOMAIN data THEN data["low"] ELSE <<>>)

\* The fields of the task a record describes
RecordFields(rec) ==
    <<rec["task_name"], rec["description"], Upper(rec["priority"]),
      rec["conclude_time"], rec["_is_completed"]>>

\* The record has every field, names a priority, and passes the validation
WellFormed(rec) ==
    /\ {"task_name", "description", "priority", "conclude_time", "_is_completed"}
           \subseteq DOMAIN rec
    /\ Upper(rec["priority"]) \in {"LOW", "MID", "HIGH"}
    /\ rec["task_name"] \notin {"", " "}
    /\ rec["conclude_time"] > 0

\* The records of the document that describe tasks of this bucket
RecordsFor(data, key) ==
    SelectSeq(ReadOrder(data), LAMBDA rec : Lower(Upper(rec["priority"])) = key)

\* C11: a successful import only appends. In each bucket the tasks held
\* before stay, the same objects in the same order with the same fields, as
\* a prefix; after them come the imported tasks of that priority, in the
\* order the document is read. A JSON object whose records are all well
\* formed imports successfully whichever of its three keys are missing.
C11_ImportAppends ==
    [][last'.op = "import_tasks" =>
          /\ (file.kind = "object"
                /\ \A k \in 1..Len(ReadOrder(file.data)) :
                       WellFormed(ReadOrder(file.data)[k]))
             => last'.exc = "none"
          /\ last'.exc = "none" =>
                \A key \in {"low", "mid", "high"} :
                    LET old == Lists[key]
                        new == Lists'[key]
                        recs == RecordsFor(file.data, key)
                    IN /\ Len(new) = Len(old) + Len(recs)
                       /\ \A k \in 1..Len(old) : new[k] = old[k]
                       /\ \A k \in 1..Len(recs) :
                             Fields(new[Len(old) + k]) = RecordFields(recs[k])]_vars

\* C11 witness: a document with a missing key was imported into a store
\* that held a task, and a bucket now holds an old and an imported task
C11_Witness ==
    /\ last.op = "import_tasks"
    /\ last.exc = "none"
    /\ file.kind = "object"
    /\ DOMAIN file.data # {"high", "mid", "low"}
    /\ Len(ReadOrder(file.data)) >= 1
    /\ Size(Lists) > Len(ReadOrder(file.data))
    /\ \E key \in {"low", "mid", "high"} :
          /\ Len(Lists[key]) >= 2
          /\ Len(RecordsFor(file.data, key)) >= 1
          /\ Len(RecordsFor(file.data, key)) < Len(Lists[key])

\* The positions of a sequence of tasks that hold this name
Matches(scan, task_name) == {k \in 1..Len(scan) : scan[k].task_name = task_name}

\* The sequence without its k-th element
RemoveAt(seq, k) == SubSeq(seq, 1, k - 1) \o SubSeq(seq, k + 1, Len(seq))

\* C12: lookup by name takes the first match of the scan low, mid, high,
\* and the Pomodoro start picks the same task as the deletion for every
\* name. delete_task removes exactly that first match and leaves all other
\* tasks in their buckets in the same order; when no task has the name it
\* prints "Task not found." and changes nothing.
C12_DeleteFirstMatch ==
    [][/\ \A task_name \in {"a", "b", "c"} :
              FirstNamed(PomodoroScan(Lists), task_name)
                  = FirstNamed(DeleteScan(Lists), task_name)
       /\ last'.op = "delete_task" =>
             LET scan == task_low \o task_mid \o task_high
                 found == Matches(scan, last'.arg)
             IN IF found = {}
                THEN /\ UNCHANGED storeVars
                     /\ out' = <<"Task not found.">>
                ELSE LET first == CHOOSE k \in found : \A j \in found : k <= j
                     IN /\ task_low' \o task_mid' \o task_high' = RemoveAt(scan, first)
                        /\ Len(task_low') =
                               Len(task_low) - (IF first <= Len(task_low) THEN 1 ELSE 0)
                        /\ Len(task_high') =
                               Len(task_high)
                                 - (IF first > Len(task_low) + Len(task_mid) THEN 1 ELSE 0)
                        /\ out'[Len(out')] = "Task deleted successfully."]_vars

\* C12 witness: delete_task removed a task by name while a second task of
\* that name, later in the scan, stays in the store
C12_Witness ==
    /\ last.op = "delete_task"
    /\ last.exc = "none"
    /\ \E t \in AllTasks(Lists) : t.task_name = last.arg

====
